---- MODULE Spec2Model ----
(***************************************************************************)
(* Model of dashboard/server.py: the RDS dashboard HTTP server.            *)
(*                                                                         *)
(* The server is a single-threaded HTTPServer.  Each request is parsed by  *)
(* the library, dispatched to Handler.do_GET / do_POST / do_OPTIONS, and   *)
(* the handler writes a response and possibly runs external commands       *)
(* (systemctl, rds).  The configuration (ENGINES, BACKUP_ENGINES,          *)
(* AUTH_PASSWORD, ALLOWED_ORIGINS) is read once at import time.            *)
(*                                                                         *)
(* Strings that the code takes apart (the request path) are modelled as    *)
(* sequences of tokens: "/", "?", "%2F" and words.  The response is the    *)
(* sequence of lines the handler appends to the output, in call order.     *)
(***************************************************************************)
EXTENDS Naturals, Sequences, FiniteSets, TLC

VARIABLES
    ENGINES,          \* server.py:13  configured engine allow-list
    BACKUP_ENGINES,   \* server.py:16  backup-capable list
    AUTH_PASSWORD,    \* server.py:24  None, or the stripped password file
    ALLOWED_ORIGINS,  \* server.py:31  allowed CORS origins
    pc,               \* "idle" | "accepted" | "done" | "crashed"
    req,              \* the request being handled
    wire,             \* what the handler wrote: status line, headers, body
    cmds,             \* the external commands the handler ran
    served            \* number of requests the server loop has finished

vars == <<ENGINES, BACKUP_ENGINES, AUTH_PASSWORD, ALLOWED_ORIGINS,
          pc, req, wire, cmds, served>>

config == <<ENGINES, BACKUP_ENGINES, AUTH_PASSWORD, ALLOWED_ORIGINS>>

\* Number of requests the server loop accepts in one behaviour.
MaxRequests == 2

None == "<None>"

-----------------------------------------------------------------------------
(* Configuration, as the module-level code computes it from the environment *)

\* Engine names that may appear in RDS_ENGINES / RDS_BACKUP_ENGINES.
Names == {"pg", "redis"}

\* Engine names that may appear in a request path.
ReqNames == Names \cup {"nosuch"}

\* server.py:23  RDS_DASHBOARD_AUTH_USER defaults to "rds".
AUTH_USER == "rds"

\* What RDS_DASHBOARD_PASSWORD_FILE may be: unset or naming no file (None),
\* or a file with the given content.
PasswordFiles == {None, " ", "pw "}

\* str.strip() on the file contents listed above.
Strip(s) == IF s = " " THEN "" ELSE IF s = "pw " THEN "pw" ELSE s

\* server.py:24-28
LoadPassword(file) == IF file = None THEN None ELSE Strip(file)

Origins == {"http://a", "http://b"}

\* Python truthiness of an Optional[str].
Truthy(s) == s # None /\ s # ""

-----------------------------------------------------------------------------
(* Strings as token sequences *)

RECURSIVE Join(_)
Join(s) == IF s = <<>> THEN "" ELSE s[1] \o Join(Tail(s))

\* urllib.parse.unquote, on the one escape the model's paths contain.
Unquote(p) == [i \in 1..Len(p) |-> IF p[i] = "%2F" THEN "/" ELSE p[i]]

\* str.split("?")[0]
RECURSIVE BeforeQuery(_)
BeforeQuery(p) ==
    IF p = <<>> \/ p[1] = "?" THEN <<>> ELSE <<p[1]>> \o BeforeQuery(Tail(p))

\* str.rstrip("/")
RECURSIVE RStripSlash(_)
RStripSlash(p) ==
    IF p # <<>> /\ p[Len(p)] = "/" THEN RStripSlash(SubSeq(p, 1, Len(p) - 1))
    ELSE p

\* str.split("/"): the list of strings between the slashes.
RECURSIVE SplitSlash(_, _)
SplitSlash(p, cur) ==
    IF p = <<>> THEN <<Join(cur)>>
    ELSE IF p[1] = "/" THEN <<Join(cur)>> \o SplitSlash(Tail(p), <<>>)
    ELSE SplitSlash(Tail(p), Append(cur, p[1]))

Split(p) == SplitSlash(p, <<>>)

StartsWith(p, pre) == Len(p) >= Len(pre) /\ SubSeq(p, 1, Len(pre)) = pre

EndsWith(p, suf) ==
    Len(p) >= Len(suf) /\ SubSeq(p, Len(p) - Len(suf) + 1, Len(p)) = suf

ApiEnginesPrefix == <<"/", "api", "/", "engines", "/">>

-----------------------------------------------------------------------------
(* Requests *)

\* The methods Handler defines; the library answers any other method itself.
Methods == {"GET", "POST", "OPTIONS"}

EnginePath(n, a) == ApiEnginesPrefix \o <<n, "/", a>>

PathTails == {"start", "stop", "restart", "backup", "restore", "backups",
              "nonaction"}

Paths ==
    {<<"/">>, <<"/", "index.html">>, <<"/", "nope">>,
     <<"/", "api", "/", "engines">>, ApiEnginesPrefix,
     EnginePath("pg", "start") \o <<"/">>,
     EnginePath("pg", "start") \o <<"?", "q">>,
     EnginePath("pg", "backups") \o <<"?", "q">>,
     ApiEnginesPrefix \o <<"pg", "%2F", "start">>}
    \cup {ApiEnginesPrefix \o <<n>> : n \in ReqNames}
    \cup {EnginePath(n, a) : n \in ReqNames, a \in PathTails}

\* Authorization header: absent, or "<scheme> <credentials>".
NoAuth == [scheme |-> None, rest |-> ""]

AuthHeaders ==
    {NoAuth,
     [scheme |-> "Bearer ", rest |-> "cmRzOnB3"],
     [scheme |-> "Basic ", rest |-> "cmRzOnB3"],
     [scheme |-> "Basic ", rest |-> "cmRzOmJhZA=="],
     [scheme |-> "Basic ", rest |-> "cmR"]}

\* base64.b64decode(...).decode(): the decoded text as tokens, or Raise.
Raise == <<"<raise>">>

B64Decode(s) ==
    IF s = "cmRzOnB3" THEN <<"rds", ":", "pw">>
    ELSE IF s = "cmRzOmJhZA==" THEN <<"rds", ":", "bad">>
    ELSE Raise

\* str.partition(":"): the text before and after the first ":".
RECURSIVE AfterColon(_)
AfterColon(t) ==
    IF t = <<>> THEN <<>> ELSE IF t[1] = ":" THEN Tail(t) ELSE AfterColon(Tail(t))

RECURSIVE BeforeColon(_)
BeforeColon(t) ==
    IF t = <<>> \/ t[1] = ":" THEN <<>> ELSE <<t[1]>> \o BeforeColon(Tail(t))

\* Request bodies, as sent.
B_EMPTYOBJ == "{}"
B_ID == "{\"id\":\"b1\"}"
B_ID_EXTRA == "{\"id\":\"b1\",\"x\":1}"
B_NOID_EXTRA == "{\"x\":1}"
B_ID_EMPTY == "{\"id\":\"\"}"
B_ID_NUM == "{\"id\":5}"
B_ID_ZERO == "{\"id\":0}"
B_LIST == "[1]"
B_GARBAGE == "not json"
B_BADUTF8 == "<0xff>"

Bodies == {B_EMPTYOBJ, B_ID, B_ID_EXTRA, B_NOID_EXTRA, B_ID_EMPTY, B_ID_NUM,
           B_ID_ZERO, B_LIST, B_GARBAGE, B_BADUTF8}

\* Content-Length header and body: no header or "0" with no body, a header
\* that is no number, or a header giving the length of the body sent.
Framings ==
    {[clen |-> None, body |-> ""], [clen |-> "0", body |-> ""],
     [clen |-> "abc", body |-> ""], [clen |-> "abc", body |-> B_ID]}
    \cup {[clen |-> "len(body)", body |-> b] : b \in Bodies}

NoFraming == [clen |-> None, body |-> ""]

BodyPaths == {EnginePath(n, "restore") : n \in ReqNames}

Request(m, p, a, o, f) ==
    [method |-> m, path |-> p, auth |-> a, origin |-> o,
     clen |-> f.clen, body |-> f.body]

Requests ==
    {Request(m, p, a, o, NoFraming) :
        m \in Methods, p \in Paths, a \in AuthHeaders, o \in Origins \cup {None}}
    \cup
    {Request("POST", p, a, o, f) :
        p \in BodyPaths, a \in AuthHeaders, o \in Origins \cup {None},
        f \in Framings}

NoRequest == Request(None, <<>>, NoAuth, None, NoFraming)

-----------------------------------------------------------------------------
(* JSON values *)

JStr(s) == [ty |-> "str", val |-> s]
JNum(s) == [ty |-> "num", val |-> s]

\* Python truthiness of a JSON value.
JTruthy(v) == IF v.ty = "str" THEN v.val # "" ELSE v.val # "0"

\* json.loads(raw) followed by data.get("id", ""): the id, or Raise when
\* either step raises (invalid JSON; a list has no .get).
LoadsGetId(raw) ==
    IF raw \in {B_EMPTYOBJ, B_NOID_EXTRA} THEN JStr("")
    ELSE IF raw \in {B_ID, B_ID_EXTRA} THEN JStr("b1")
    ELSE IF raw = B_ID_EMPTY THEN JStr("")
    ELSE IF raw = B_ID_NUM THEN JNum("5")
    ELSE IF raw = B_ID_ZERO THEN JNum("0")
    ELSE JStr("<raise>")

LoadsRaises(raw) == raw \in {B_LIST, B_GARBAGE}

\* Response bodies.
ErrBody(msg) == [kind |-> "error", msg |-> msg, items |-> <<>>]
OkBody == [kind |-> "ok", msg |-> "", items |-> <<>>]
BackupsBody(ids) == [kind |-> "backups", msg |-> "", items |-> ids]
EnginesBody(list) == [kind |-> "engines", msg |-> "", items |-> list]
HtmlBody == [kind |-> "html", msg |-> "", items |-> <<>>]
NoBody == [kind |-> None, msg |-> "", items |-> <<>>]

-----------------------------------------------------------------------------
(* Process delegate: subprocess.run *)

\* How an external command can end: exit status 0, a non-zero exit status,
\* no exit within the timeout, or the program could not be started.
Outcomes == {"ok", "nonzero", "timeout", "noexec"}

StatusTimeout == 5
ControlTimeout == 30
ListTimeout == 30
BackupTimeout == 300
RestoreTimeout == 600

Command(argv, timeout, check, outcome) ==
    [argv |-> argv, timeout |-> timeout, check |-> check, outcome |-> outcome]

\* The exception subprocess.run raises for a command, or None.
RunException(c) ==
    IF c.outcome = "timeout" THEN "TimeoutExpired"
    ELSE IF c.outcome = "noexec" THEN "FileNotFoundError"
    ELSE IF c.outcome = "nonzero" /\ c.check THEN "CalledProcessError"
    ELSE None

Unit(name) == "rds-" \o name \o ".service"

Result(status, body, run) == [status |-> status, body |-> body, cmds |-> run]

\* As Checked, with the handler for CalledProcessError missing: a non-zero
\* exit falls to `except Exception` and is answered 500.
Checked_NoUpstreamError(c) ==
    IF RunException(c) = None THEN Result(200, OkBody, <<c>>)
    ELSE Result(500, ErrBody(RunException(c)), <<c>>)

\* try: subprocess.run(..., check=True); return 200 {ok}
\* except CalledProcessError: 502; except Exception: 500
Checked(c) ==
    IF RunException(c) = None THEN Result(200, OkBody, <<c>>)
    ELSE IF RunException(c) = "CalledProcessError"
        THEN Result(502, ErrBody(RunException(c)), <<c>>)
    ELSE Result(500, ErrBody(RunException(c)), <<c>>)

\* Output of `rds backup list`, line by line.
Stdouts == {<<>>, <<" b1", "", "b2 ">>}

StripLine(l) == IF l = " b1" THEN "b1" ELSE IF l = "b2 " THEN "b2" ELSE l

NonBlank(l) == StripLine(l) # ""

ParseIds(out) ==
    LET kept == SelectSeq(out, NonBlank)
    IN [i \in 1..Len(kept) |-> StripLine(kept[i])]

\* What `systemctl is-active` may print, or Raise when the probe fails.
StatusProbes == {"active", "", "<raise>"}

engine_status(probe) ==
    IF probe = "<raise>" THEN "unknown"
    ELSE IF probe = "" THEN "inactive" ELSE probe

EngineOrder == <<"pg", "redis">>

InEngines(n) == n \in ENGINES

\* The set of possible results of api_engines(): one per way the status
\* probes can end.  No browse URL or connect command is set.
api_engines ==
    LET list == SelectSeq(EngineOrder, InEngines)
    IN {[body |-> EnginesBody(
             [i \in 1..Len(list) |->
                 [name |-> list[i], status |-> engine_status(pr[list[i]]),
                  browseUrl |-> None, connectCommand |-> "",
                  hasBackup |-> list[i] \in BACKUP_ENGINES]]),
         cmds |-> [i \in 1..Len(list) |->
                     Command(<<"systemctl", "is-active", Unit(list[i])>>,
                             StatusTimeout, FALSE,
                             IF pr[list[i]] = "<raise>" THEN "noexec" ELSE "ok")]]
        : pr \in [ENGINES -> StatusProbes]}

\* The set of possible results of api_engine_action(name, action).
api_engine_action(name, action) ==
    IF name \notin ENGINES THEN {Result(404, ErrBody("unknown engine"), <<>>)}
    ELSE IF action \in {"start", "stop", "restart"}
        THEN {Checked(Command(<<"systemctl", action, Unit(name)>>,
                              ControlTimeout, TRUE, o)) : o \in Outcomes}
    ELSE {Result(400, ErrBody("bad action"), <<>>)}

\* The set of possible results of api_backup_list(name).
api_backup_list(name) ==
    IF name \notin BACKUP_ENGINES
        THEN {Result(404, ErrBody("backup not enabled"), <<>>)}
    ELSE {LET c == Command(<<"rds", "backup", "list", name>>,
                           ListTimeout, FALSE, o)
          IN IF RunException(c) = None
                THEN Result(200, BackupsBody(ParseIds(out)), <<c>>)
             ELSE Result(500, ErrBody(RunException(c)), <<c>>)
          : o \in Outcomes, out \in Stdouts}

\* The set of possible results of api_backup_trigger(name).
api_backup_trigger(name) ==
    IF name \notin BACKUP_ENGINES
        THEN {Result(404, ErrBody("backup not enabled"), <<>>)}
    ELSE {Checked(Command(<<"rds", "backup", name>>, BackupTimeout, TRUE, o))
          : o \in Outcomes}

\* The set of possible results of api_backup_restore(name, backup_id).
\* An id that is not a string makes subprocess.run raise TypeError before
\* any process is started.
api_backup_restore(name, backup_id) ==
    IF name \notin BACKUP_ENGINES
        THEN {Result(404, ErrBody("backup not enabled"), <<>>)}
    ELSE IF ~JTruthy(backup_id)
        THEN {Result(400, ErrBody("backup id required"), <<>>)}
    ELSE IF backup_id.ty # "str"
        THEN {Result(500, ErrBody("TypeError"), <<>>)}
    ELSE {Checked(Command(<<"rds", "restore", name, backup_id.val>>,
                          RestoreTimeout, TRUE, o)) : o \in Outcomes}

-----------------------------------------------------------------------------
(* Writing a response.  BaseHTTPRequestHandler appends the status line and *)
(* each header to one buffer in call order; end_headers flushes it.        *)

StatusLine(code) == [t |-> "status", k |-> "", v |-> "", code |-> code, body |-> NoBody]
HeaderLine(k, v) == [t |-> "header", k |-> k, v |-> v, code |-> 0, body |-> NoBody]
EndOfHeaders == [t |-> "end", k |-> "", v |-> "", code |-> 0, body |-> NoBody]
BodyBytes(b) == [t |-> "body", k |-> "", v |-> "", code |-> 0, body |-> b]

\* The library's send_response also appends Server and Date headers after
\* the status line; they are left out, nothing in the handlers reads them.
send_response(w, code) == Append(w, StatusLine(code))
send_header(w, k, v) == Append(w, HeaderLine(k, v))
end_headers(w) == Append(w, EndOfHeaders)
write(w, b) == Append(w, BodyBytes(b))

_add_cors(w, r) ==
    IF Truthy(r.origin) /\ r.origin \in ALLOWED_ORIGINS
        THEN w \o <<HeaderLine("Access-Control-Allow-Origin", r.origin),
                    HeaderLine("Access-Control-Allow-Methods", "GET, POST, OPTIONS"),
                    HeaderLine("Access-Control-Allow-Headers",
                               "Content-Type, Authorization"),
                    HeaderLine("Access-Control-Max-Age", "86400")>>
    ELSE w

send_json(r, status, obj) ==
    write(end_headers(_add_cors(
        send_header(send_response(<<>>, status),
                    "Content-Type", "application/json"), r)), obj)

\* The 401 response of check_auth.
Unauthorized(r) ==
    end_headers(_add_cors(
        send_header(send_response(<<>>, 401),
                    "WWW-Authenticate", "Basic realm=\"RDS dashboard\""), r))

\* TRUE when check_auth returns True; otherwise Unauthorized(r) is sent.
check_auth(r) ==
    IF ~Truthy(AUTH_PASSWORD) THEN TRUE
    ELSE IF r.auth.scheme # "Basic " THEN FALSE
    ELSE LET raw == B64Decode(r.auth.rest)
         IN /\ raw # Raise
            /\ Join(BeforeColon(raw)) = AUTH_USER
            /\ Join(AfterColon(raw)) = AUTH_PASSWORD

\* The empty 404 that ends do_GET and do_POST.
NotFound(r) == end_headers(_add_cors(send_response(<<>>, 404), r))

-----------------------------------------------------------------------------
(* Handlers: the set of ways one call of the handler can end. *)

Handled(w, run) == [wire |-> w, cmds |-> run, crashed |-> FALSE]

\* The handler raised: socketserver logs the error and closes the
\* connection; what was flushed before stays sent.
Crashed(w, run) == [wire |-> w, cmds |-> run, crashed |-> TRUE]

Json(r, res) == Handled(send_json(r, res.status, res.body), res.cmds)

do_OPTIONS_results(r) ==
    {Handled(end_headers(send_response(_add_cors(<<>>, r), 204)), <<>>)}

GetPath(r) ==
    LET p == RStripSlash(BeforeQuery(Unquote(r.path)))
    IN IF p = <<>> THEN <<"/">> ELSE p

do_GET_results(r) ==
    IF ~check_auth(r) THEN {Handled(Unauthorized(r), <<>>)}
    ELSE LET path == GetPath(r) IN
         IF path = <<"/", "api", "/", "engines">>
            THEN {Handled(send_json(r, 200, e.body), e.cmds) : e \in api_engines}
         ELSE IF StartsWith(path, ApiEnginesPrefix)
                 /\ EndsWith(path, <<"/", "backups">>)
            THEN {Json(r, res) : res \in api_backup_list(Split(path)[4])}
         ELSE IF path = <<"/">> \/ path = <<"/", "index.html">>
            THEN LET head == end_headers(_add_cors(
                        send_header(send_response(<<>>, 200),
                                    "Content-Type", "text/html; charset=utf-8"), r))
                 IN {Handled(write(head, HtmlBody), <<>>), Crashed(head, <<>>)}
         ELSE {Handled(NotFound(r), <<>>)}

PostPath(r) == RStripSlash(Unquote(r.path))

\* int(Content-Length), rfile.read(length).decode(), json.loads, .get("id").
\* int() and decode() are outside the try: what they raise leaves do_POST.
RestoreId(r) ==
    LET empty == r.clen \in {None, "0"} \/ r.body = ""
        raw == IF empty THEN "{}" ELSE r.body
    IN IF r.clen = "abc" THEN [raised |-> "ValueError", id |-> JStr("")]
       ELSE IF raw = B_BADUTF8
          THEN [raised |-> "UnicodeDecodeError", id |-> JStr("")]
       ELSE IF LoadsRaises(raw) THEN [raised |-> None, id |-> JStr("")]
       ELSE [raised |-> None, id |-> LoadsGetId(raw)]

do_POST_results(r) ==
    IF ~check_auth(r) THEN {Handled(Unauthorized(r), <<>>)}
    ELSE LET path == PostPath(r)
             parts == Split(path)
             name == parts[4]
             action == IF Len(parts) > 4 THEN parts[5] ELSE None
         IN
         IF StartsWith(path, ApiEnginesPrefix) /\ Len(parts) >= 4
            THEN IF action \in {"start", "stop", "restart"}
                    THEN {Json(r, res) : res \in api_engine_action(name, action)}
                 ELSE IF action = "backup"
                    THEN {Json(r, res) : res \in api_backup_trigger(name)}
                 ELSE IF action = "restore"
                    THEN IF RestoreId(r).raised # None
                            THEN {Crashed(<<>>, <<>>)}
                         ELSE {Json(r, res) :
                                 res \in api_backup_restore(name, RestoreId(r).id)}
                 ELSE {Handled(NotFound(r), <<>>)}
         ELSE {Handled(NotFound(r), <<>>)}

-----------------------------------------------------------------------------
(* The server *)

Init ==
    /\ ENGINES \in SUBSET Names
    /\ BACKUP_ENGINES \in SUBSET Names
    /\ AUTH_PASSWORD \in {LoadPassword(f) : f \in PasswordFiles}
    /\ ALLOWED_ORIGINS \in SUBSET {"http://a"}
    /\ pc = "idle"
    /\ req = NoRequest
    /\ wire = <<>>
    /\ cmds = <<>>
    /\ served = 0

\* serve_forever: the library reads the next request.
accept ==
    /\ pc = "idle"
    /\ served < MaxRequests
    /\ \E r \in Requests : req' = r
    /\ pc' = "accepted"
    /\ UNCHANGED <<config, wire, cmds, served>>

Respond(res) ==
    /\ wire' = res.wire
    /\ cmds' = res.cmds
    /\ pc' = IF res.crashed THEN "crashed" ELSE "done"
    /\ UNCHANGED <<config, req, served>>

do_GET ==
    /\ pc = "accepted"
    /\ req.method = "GET"
    /\ \E res \in do_GET_results(req) : Respond(res)

do_POST ==
    /\ pc = "accepted"
    /\ req.method = "POST"
    /\ \E res \in do_POST_results(req) : Respond(res)

do_OPTIONS ==
    /\ pc = "accepted"
    /\ req.method = "OPTIONS"
    /\ \E res \in do_OPTIONS_results(req) : Respond(res)

\* The connection is closed, after a response or after the handler raised,
\* and the server loop goes on to the next request.
finish_request ==
    /\ pc \in {"done", "crashed"}
    /\ pc' = "idle"
    /\ served' = served + 1
    /\ req' = NoRequest
    /\ wire' = <<>>
    /\ cmds' = <<>>
    /\ UNCHANGED config

Next == accept \/ do_GET \/ do_POST \/ do_OPTIONS \/ finish_request

Spec == Init /\ [][Next]_vars

-----------------------------------------------------------------------------
(* Reading the state: the request as the client sent it, and the response  *)
(* as a client reads it.                                                   *)

Ended == pc \in {"done", "crashed"}

\* A client reads the first line as the status line; what does not start
\* with one is no HTTP response (http.client raises BadStatusLine).
Parses == wire # <<>> /\ wire[1].t = "status"

ResponseStatus == IF Parses THEN wire[1].code ELSE 0

HeaderIndexes(k) ==
    {i \in 1..Len(wire) :
        /\ Parses
        /\ wire[i].t = "header" /\ wire[i].k = k
        /\ \A j \in 1..i : wire[j].t # "end"}

HasHeader(k) == HeaderIndexes(k) # {}

HeaderValues(k) == {wire[i].v : i \in HeaderIndexes(k)}

CorsHeaderNames ==
    {"Access-Control-Allow-Origin", "Access-Control-Allow-Methods",
     "Access-Control-Allow-Headers", "Access-Control-Max-Age"}

ResponseBody ==
    IF \E i \in 1..Len(wire) : wire[i].t = "body"
        THEN wire[CHOOSE i \in 1..Len(wire) : wire[i].t = "body"].body
    ELSE NoBody

JsonError(code, msg) == ResponseStatus = code /\ ResponseBody = ErrBody(msg)

\* base64 of "rds:<password>" for the passwords a file can hold.
BasicToken(password) == IF password = "pw" THEN "cmRzOnB3" ELSE "cmRzOg=="

\* The request carries the configured user and password, Basic-encoded.
CorrectCredentials ==
    /\ AUTH_PASSWORD # None
    /\ req.auth = [scheme |-> "Basic ", rest |-> BasicToken(AUTH_PASSWORD)]

\* The request is one the access-control gate lets through.
Authorized == AUTH_PASSWORD \in {None, ""} \/ CorrectCredentials

ControlActions == {"start", "stop", "restart"}

PostsTo(n, a) == req.method = "POST" /\ req.path = EnginePath(n, a)

GetsBackups(n) == req.method = "GET" /\ req.path = EnginePath(n, "backups")

\* The engine an external command names.
CmdEngine(c) ==
    IF c.argv[1] = "rds" THEN c.argv[Len(c.argv) - (IF c.argv[2] = "restore" THEN 1 ELSE 0)]
    ELSE CHOOSE n \in ReqNames \cup {""} : c.argv[3] = "rds-" \o n \o ".service"

Invoked == {cmds[i] : i \in 1..Len(cmds)}

-----------------------------------------------------------------------------
(* Claims *)

\* C1: every systemctl or rds command the server runs names an engine of
\* ENGINES, whatever BACKUP_ENGINES holds: an authorized POST of start, stop,
\* restart, backup or restore for a name outside ENGINES runs no command,
\* and the control actions answer it 404 {error:"unknown engine"}.
C1_OnlyConfiguredEnginesDelegated ==
    /\ req.method = "POST" => \A c \in Invoked : CmdEngine(c) \in ENGINES
    /\ \A n \in ReqNames \ ENGINES, a \in ControlActions \cup {"backup", "restore"} :
          (pc = "done" /\ Authorized /\ PostsTo(n, a)) =>
             /\ cmds = <<>>
             /\ a \in ControlActions => JsonError(404, "unknown engine")

\* C2: an authorized POST /api/engines/{name}/{token} with a configured name
\* and an unrecognized token is answered 400 {error:"bad action"} and runs
\* no command.
C2_UnrecognizedActionIs400 ==
    \A n \in ENGINES :
        (Ended /\ Authorized /\ PostsTo(n, "nonaction")) =>
            JsonError(400, "bad action") /\ cmds = <<>>

\* C3: a request is answered 401 exactly when a password file is configured,
\* the method is GET or POST and the request does not carry the configured
\* user:password as Basic credentials; the 401 carries WWW-Authenticate and
\* no command is run for it.
C3_GateRejectsExactlyUnauthenticated ==
    Ended =>
        /\ ResponseStatus = 401 <=>
              /\ AUTH_PASSWORD # None
              /\ req.method \in {"GET", "POST"}
              /\ ~CorrectCredentials
        /\ ResponseStatus = 401 => HasHeader("WWW-Authenticate") /\ cmds = <<>>

\* The body of the request is absent.
BodyAbsent == req.clen \in {None, "0"} \/ req.body = ""

\* The body has no id, or an empty one, or is no JSON object at all.
IdMissing ==
    \/ BodyAbsent
    \/ req.body \in {B_EMPTYOBJ, B_NOID_EXTRA, B_ID_EMPTY, B_LIST, B_GARBAGE,
                     B_BADUTF8}

\* The body is a JSON object whose id is the string "b1".
IdIsB1 == ~BodyAbsent /\ req.body \in {B_ID, B_ID_EXTRA}

\* C4: an authorized restore for a backup-capable engine is answered
\* 400 {error:"backup id required"} without running the restore command when
\* the body has no id or an empty one (empty, absent, unparsable or
\* non-object bodies included), and runs `rds restore <name> <id>` when the
\* body carries a non-empty string id.
C4_RestoreIdContract ==
    \A n \in BACKUP_ENGINES :
        (Ended /\ Authorized /\ PostsTo(n, "restore")) =>
            /\ IdMissing => JsonError(400, "backup id required") /\ cmds = <<>>
            /\ IdIsB1 => \E c \in Invoked : c.argv = <<"rds", "restore", n, "b1">>

\* C5: every response carries Access-Control-Allow-Origin, equal to the
\* request's Origin, when that Origin is in ALLOWED_ORIGINS, and otherwise
\* nothing of CORS is emitted at all.
C5_CorsHeaderIffAllowedOrigin ==
    (Ended /\ wire # <<>>) =>
        IF req.origin \in ALLOWED_ORIGINS
            THEN HeaderValues("Access-Control-Allow-Origin") = {req.origin}
        ELSE \A i \in 1..Len(wire) : wire[i].k \notin CorsHeaderNames

\* C6: for a configured engine that is not backup-capable, GET .../backups,
\* POST .../backup and POST .../restore with any body are answered
\* 404 {error:"backup not enabled"} and run no command.
C6_BackupNotEnabledIs404 ==
    \A n \in ENGINES \ BACKUP_ENGINES :
        (Ended /\ Authorized
            /\ (GetsBackups(n) \/ PostsTo(n, "backup") \/ PostsTo(n, "restore")))
        => JsonError(404, "backup not enabled") /\ cmds = <<>>

\* The status the outcome of a checked command leads to.
ExpectedStatus(outcome) ==
    IF outcome = "ok" THEN 200 ELSE IF outcome = "nonzero" THEN 502 ELSE 500

\* C7: for start/stop/restart on a configured engine, backup on a
\* backup-capable engine and restore with a non-empty id on a backup-capable
\* engine, the response sent follows the delegated command: exit 0 gives
\* 200 {ok:true}, a non-zero exit 502 {error}, a timeout (30 s control,
\* 300 s backup, 600 s restore) or a command that cannot be executed
\* 500 {error}; no other status is produced.
C7_ResponseFollowsCommandOutcome ==
    \A n \in ReqNames :
        LET control == n \in ENGINES /\ \E a \in ControlActions : PostsTo(n, a)
            backup == n \in BACKUP_ENGINES /\ PostsTo(n, "backup")
            restore == /\ n \in BACKUP_ENGINES /\ PostsTo(n, "restore")
                       /\ ~BodyAbsent /\ req.body \in {B_ID, B_ID_EXTRA, B_ID_NUM}
        IN (pc = "done" /\ Authorized /\ (control \/ backup \/ restore)) =>
              /\ ResponseStatus \in {200, 502, 500}
              /\ IF ResponseStatus = 200 THEN ResponseBody = OkBody
                 ELSE ResponseBody.kind = "error"
              /\ IF restore /\ req.body = B_ID_NUM
                    THEN cmds = <<>> /\ ResponseStatus = 500
                 ELSE Len(cmds) = 1
              /\ \A c \in Invoked :
                    /\ c.check
                    /\ ResponseStatus = ExpectedStatus(c.outcome)
                    /\ c.timeout = IF control THEN 30
                                   ELSE IF backup THEN 300 ELSE 600

\* C7 witness: a restore for a backup-capable engine whose command timed
\* out was answered 500.
C7_Witness ==
    /\ pc = "done" /\ PostsTo("pg", "restore") /\ req.body = B_ID
    /\ Len(cmds) = 1 /\ cmds[1].outcome = "timeout"
    /\ ResponseStatus = 500

\* C8: for GET .../backups on a backup-capable engine, any failure of the
\* list command (non-zero exit, timeout, not executable) is answered
\* 500 {error}, and 200 {backups} is returned only when it succeeded.
C8_ListFailureIs500 ==
    \A n \in BACKUP_ENGINES :
        (pc = "done" /\ Authorized /\ GetsBackups(n)) =>
            \A c \in Invoked :
                /\ c.outcome # "ok" =>
                      ResponseStatus = 500 /\ ResponseBody.kind = "error"
                /\ ResponseStatus = 200 =>
                      c.outcome = "ok" /\ ResponseBody.kind = "backups"

\* C9: every authorized GET or POST ends with a response, and a failure
\* while handling it is answered with an {error:<string>} body; the handler
\* never ends by raising.
C9_EveryFailureAnswered ==
    (Ended /\ Authorized /\ req.method \in {"GET", "POST"}) =>
        /\ pc = "done"
        /\ Parses
        /\ ResponseStatus \in {400, 500, 502} => ResponseBody.kind = "error"

\* C10: in everything written for a response the status line comes first,
\* then the headers, then the end of the headers, then the body.
C10_StatusLineFirst ==
    \A i \in 1..Len(wire) :
        /\ wire[i].t = "status" <=> i = 1
        /\ \A j \in 1..Len(wire) :
              (wire[i].t = "header" /\ wire[j].t \in {"end", "body"}) => i < j
        /\ \A j \in 1..Len(wire) :
              (wire[i].t = "end" /\ wire[j].t = "body") => i < j

====
